---- MODULE Spec2Model ----
(***************************************************************************)
(* A model of LiquidCore's ContextGroup (Common/ContextGroup.cpp): the     *)
(* per-group task queue and its uv_async wake handle, the zombie lists     *)
(* and FreeZombies, Dispose, and the group's GC callback list.             *)
(*                                                                         *)
(* One context group is modelled.  Its owning thread runs the event loop   *)
(* (ContextGroup::callback); the other threads call                        *)
(* schedule_java_runnable, sync_, MarkZombie and Dispose.  A task body     *)
(* runs on the owning thread with no lock held, and may itself call        *)
(* schedule_java_runnable, MarkZombie or Dispose on the group.             *)
(*                                                                         *)
(* Every step that the code performs under one mutex hold without any      *)
(* observable intermediate point is one action; a mutex that stays held    *)
(* between two actions is recorded in m_async_mutex / m_zombie_mutex.      *)
(* Accesses the code makes without a lock (Dispose's m_runnables.clear())  *)
(* are steps of their own that interleave freely.                          *)
(***************************************************************************)
EXTENDS Integers, Sequences, FiniteSets, TLC

\* ---------------------------------------------------------------- bounds
MaxTasks == 2
NumValues == 1
NumContexts == 1
MaxDispose == 2
MaxGC == 3
NumGroups == 2
MaxFile == 2

\* ---------------------------------------------------------------- threads
Owner == "owner"
Workers == {"t1", "t2"}
Threads == {Owner} \cup Workers
NoThread == "none"

Values == 1..NumValues
Contexts == 1..NumContexts

NullTask == [id |-> 0, waiter |-> NoThread]

\* ---- the process-wide view: several groups and the isolates they use
Groups == 1..NumGroups
NoGroup == 0

\* An isolate the embedder created and hands to the adopting constructor,
\* and the addresses Isolate::New can return
EmbedderIsolate == "ext"
FreshIsolates == {"iso1", "iso2"}
Isolates == {EmbedderIsolate} \cup FreshIsolates
NoIsolate == "null"

NoLocal == [g |-> NoGroup, iso |-> NoIsolate]

\* The arguments of a GC prologue event
GCTypes == {"scavenge", "markSweepCompact"}
GCFlags == {"noFlags", "forced"}
NoArgs == [type |-> "none", flags |-> "none"]

VARIABLES
    pc,                 \* position of every thread
    m_runnables,        \* the task queue: Seq of [id, waiter]
    nextTask,           \* number of tasks pushed so far (ids are 1..nextTask)
    m_async_handle,     \* TRUE iff m_async_handle is not null
    asyncSent,          \* uv_async_send calls whose callback has not started
    m_async_mutex,      \* holder of m_async_mutex, or NoThread
    m_zombie_mutex,     \* holder of m_zombie_mutex, or NoThread
    r,                  \* callback's local r (NullTask for nullptr)
    signaled,           \* sync_'s stack-local flag, per calling thread
    syncTask,           \* id of the task of the thread's current sync_ call
    m_value_zombies,    \* Seq of values
    m_context_zombies,  \* Seq of contexts
    it,                 \* FreeZombies' iterator over m_context_zombies
    markedV, markedC,   \* objects MarkZombie has been called for
    defunctCtx,         \* contexts whose IsDefunct() is true
    crashed,            \* the process aborted (an outcome of undefined behaviour)
    \* ---- lifecycle (Dispose)
    m_isDefunct,
    m_managedValues, m_managedContexts,
    gcHooked,           \* StaticGCPrologueCallback is installed on the isolate
    registered,         \* s_isolate_map has an entry for m_isolate
    m_manage_isolate,
    hasStartup,         \* m_startup_data.data && m_startup_data.raw_size
    s_init_count,
    inDispose,          \* threads inside the body of Dispose
    dpReturn,           \* per thread: where its suspended Dispose calls resume
    disposeCalls,       \* Dispose calls made
    \* ---- GC callback list
    m_gc_callbacks,     \* Seq of [id, cb, data]
    gcArgs,             \* per thread: [type, flags] of the GC event it delivers
    gcCalls,            \* Seq of [cb, type, flags, data]: the callbacks the
                        \* event being delivered has invoked
    \* ---- history (observations, never read by the program)
    executed,           \* Seq of ids of the task bodies run, in order
    executedBy,         \* Seq of the threads that ran them
    syncDone,           \* ids of the tasks whose sync_ call has returned
    released,           \* per value: the thread that released the zombie
    releasedC,          \* per context: the thread that released the zombie
    exitCount,          \* per context: forced exits invoked
    drainSaw,           \* per context: IsDefunct() as FreeZombies read it
    disposeDone,        \* Dispose calls that ran the body and returned
    disposedVals,       \* values JSValue::Dispose was called on
    isolateDisposed, registryErased, startupFreed, v8Disposed,
    disposeSteps,       \* Seq of the steps Dispose calls have performed
    lastGC,             \* the last GC-list call: [op, cb, data, before]
    \* ---- the process: the isolate registry and the V8 runtime
    s_mutex,            \* holder of s_mutex, or NoThread
    s_isolate_map,      \* per isolate: the group registered for it, or NoGroup
    groups,             \* per group: [state, ctor, m_isolate, m_manage_isolate,
                        \*             m_isDefunct, startup]
    liveIsolates,       \* isolates that exist (not disposed)
    hookedIsolates,     \* isolates StaticGCPrologueCallback is installed on
    loc,                \* per thread: [g, iso], the call's this and isolate
    \* ---- history of the process
    v8Log,              \* Seq of "init" / "shutdown": V8::Initialize, V8::Dispose
    entryLog,           \* Seq of [of, by]: registry entries taken out
    lastNew             \* the last ContextGroup::New call: [opens, size, read, out]

dispatchVars == <<pc, m_runnables, nextTask, m_async_handle, asyncSent,
                  m_async_mutex, m_zombie_mutex, r, signaled, syncTask,
                  m_value_zombies, m_context_zombies, it, markedV, markedC,
                  defunctCtx, crashed>>
lifeVars == <<m_isDefunct, m_managedValues, m_managedContexts, gcHooked,
              registered, m_manage_isolate, hasStartup, s_init_count,
              inDispose, dpReturn, disposeCalls>>
gcVars == <<m_gc_callbacks, lastGC, gcArgs, gcCalls>>
histVars == <<executed, executedBy, syncDone, released, releasedC, exitCount,
              drainSaw>>
lifeHistRest == <<disposeDone, disposedVals, isolateDisposed,
                  registryErased, startupFreed, v8Disposed>>
lifeHist == <<lifeHistRest, disposeSteps>>
procVars == <<s_mutex, s_isolate_map, groups, liveIsolates, hookedIsolates,
              loc, v8Log, entryLog, lastNew>>
vars == <<dispatchVars, lifeVars, gcVars, histVars, lifeHist, procVars>>

\* ---------------------------------------------------------------- helpers
Range(s) == {s[i] : i \in 1..Len(s)}

SeqOf(n) == [i \in 1..n |-> i]

\* Where a thread stands when it is free to call into the group: a worker
\* between calls, the owning thread inside a task body.
CallSite(t) == IF t = Owner THEN "cb_body" ELSE "idle"

HoldsLock(t) == m_async_mutex = t \/ m_zombie_mutex = t

\* The log of the steps of Dispose, each with the depth of the call that
\* performs it: 0 for a call from outside, 1 for a call made from inside a
\* Dispose call, and so on
Logged(t, step) ==
    Append(disposeSteps, [step |-> step, depth |-> Len(dpReturn[t])])

\* ------------------------------------------------------------------ Init
\* A group no constructor has run for
NoGroupYet == [state |-> "none", ctor |-> "none", m_isolate |-> NoIsolate,
               m_manage_isolate |-> FALSE, m_isDefunct |-> FALSE,
               startup |-> FALSE]

\* The process before any group is constructed (lines 59-62): no lock held,
\* an empty s_isolate_map; the embedder's isolate exists.  The
\* specifications of the single group keep that group's registry entry in
\* the variable registered and leave these variables as they are.
InitProcess ==
    /\ s_mutex = NoThread
    /\ s_isolate_map = [i \in Isolates |-> NoGroup]
    /\ groups = [g \in Groups |-> NoGroupYet]
    /\ liveIsolates = {EmbedderIsolate}
    /\ hookedIsolates = {}
    /\ loc = [t \in Workers |-> NoLocal]
    /\ v8Log = <<>>
    /\ entryLog = <<>>
    /\ lastNew = [opens |-> FALSE, size |-> 0, read |-> 0, out |-> "none"]

\* The group as the default constructor leaves it (lines 96-113), in a
\* process where the contexts of the group may or may not be defunct yet.
InitCommon ==
    /\ pc = [t \in Threads |-> "idle"]
    /\ m_runnables = <<>>
    /\ nextTask = 0
    /\ m_async_handle = FALSE
    /\ asyncSent = 0
    /\ m_async_mutex = NoThread
    /\ m_zombie_mutex = NoThread
    /\ r = NullTask
    /\ signaled = [t \in Workers |-> FALSE]
    /\ syncTask = [t \in Workers |-> 0]
    /\ m_value_zombies = <<>>
    /\ m_context_zombies = <<>>
    /\ it = 0
    /\ markedV = {}
    /\ markedC = {}
    /\ defunctCtx \in SUBSET Contexts
    /\ crashed = FALSE
    /\ m_isDefunct = FALSE
    /\ m_managedValues = SeqOf(NumValues)
    /\ m_managedContexts = SeqOf(NumContexts)
    /\ gcHooked = TRUE
    /\ registered = TRUE
    /\ inDispose = {}
    /\ dpReturn = [t \in Threads |-> <<>>]
    /\ disposeCalls = 0
    /\ m_gc_callbacks = <<>>
    /\ gcArgs = [t \in Workers |-> NoArgs]
    /\ gcCalls = <<>>
    /\ executed = <<>>
    /\ executedBy = <<>>
    /\ syncDone = {}
    /\ released = [v \in Values |-> NoThread]
    /\ releasedC = [c \in Contexts |-> NoThread]
    /\ exitCount = [c \in Contexts |-> 0]
    /\ drainSaw = [c \in Contexts |-> "unseen"]
    /\ disposeDone = 0
    /\ disposedVals = {}
    /\ isolateDisposed = 0
    /\ registryErased = 0
    /\ startupFreed = 0
    /\ v8Disposed = 0
    /\ disposeSteps = <<>>
    /\ lastGC = [op |-> "none", cb |-> 0, data |-> 0, before |-> <<>>]
    /\ InitProcess

Init ==
    /\ InitCommon
    /\ m_manage_isolate = TRUE
    /\ hasStartup = FALSE
    /\ s_init_count = 1

\* ------------------------------------------------- the wake handle (uv_async)
\* NeedHandle of calls that make a handle whether or not there is one
NeedHandleAlways == TRUE

\* "if (!m_async_handle)" of schedule_java_runnable, sync_ and MarkZombie.
NeedHandle == ~m_async_handle

\* EnsureHandle without the uv_async_send of lines 169, 187, 424, 446
EnsureHandleNoSend ==
    IF NeedHandle
    THEN /\ m_async_handle' = TRUE
         /\ UNCHANGED asyncSent
    ELSE UNCHANGED <<m_async_handle, asyncSent>>

\* if (!m_async_handle) { new uv_async_t; uv_async_init; uv_async_send }
EnsureHandle ==
    IF NeedHandle
    THEN /\ m_async_handle' = TRUE
         /\ asyncSent' = asyncSent + 1
    ELSE UNCHANGED <<m_async_handle, asyncSent>>

\* ------------------------------------------------- schedule_java_runnable
\* lines 433-440: lock, build the Runnable, push_back
SJ_Push(t) ==
    /\ ~crashed
    /\ pc[t] = CallSite(t)
    /\ nextTask < MaxTasks
    /\ m_async_mutex = NoThread
    /\ m_async_mutex' = t
    /\ nextTask' = nextTask + 1
    /\ m_runnables' = Append(m_runnables, [id |-> nextTask + 1, waiter |-> NoThread])
    /\ pc' = [pc EXCEPT ![t] = "sj_wake"]
    /\ UNCHANGED <<m_async_handle, asyncSent, m_zombie_mutex, r, signaled,
                   syncTask, m_value_zombies, m_context_zombies, it, markedV,
                   markedC, defunctCtx, crashed>>
    /\ UNCHANGED <<lifeVars, gcVars, procVars, histVars, lifeHist>>

\* lines 442-448: create and trigger the handle if there is none, unlock
SJ_Wake(t) ==
    /\ ~crashed
    /\ pc[t] = "sj_wake"
    /\ EnsureHandle
    /\ m_async_mutex' = NoThread
    /\ pc' = [pc EXCEPT ![t] = CallSite(t)]
    /\ UNCHANGED <<m_runnables, nextTask, m_zombie_mutex, r, signaled,
                   syncTask, m_value_zombies, m_context_zombies, it, markedV,
                   markedC, defunctCtx, crashed>>
    /\ UNCHANGED <<lifeVars, gcVars, procVars, histVars, lifeHist>>

\* ------------------------------------------------------------------ sync_
\* WaitPredicate of a plain cv.wait(lk): any wake-up ends the wait
WaitAnyWakeup(t) == TRUE

\* cv.wait(lk, [&]{return signaled;}) of line 427: the waiter goes on only
\* when it finds signaled set (a notify or a spurious wake-up both re-test it)
WaitPredicate(t) == signaled[t]

\* lines 401-418: the stack locals, the Runnable, lock, push_back.
\* Never called on the owning thread (it would wait for itself).
SY_Push(t) ==
    /\ ~crashed
    /\ t \in Workers
    /\ pc[t] = "idle"
    /\ nextTask < MaxTasks
    /\ m_async_mutex = NoThread
    /\ m_async_mutex' = t
    /\ nextTask' = nextTask + 1
    /\ m_runnables' = Append(m_runnables, [id |-> nextTask + 1, waiter |-> t])
    /\ signaled' = [signaled EXCEPT ![t] = FALSE]
    /\ syncTask' = [syncTask EXCEPT ![t] = nextTask + 1]
    /\ pc' = [pc EXCEPT ![t] = "sy_wake"]
    /\ UNCHANGED <<m_async_handle, asyncSent, m_zombie_mutex, r,
                   m_value_zombies, m_context_zombies, it, markedV,
                   markedC, defunctCtx, crashed>>
    /\ UNCHANGED <<lifeVars, gcVars, procVars, histVars, lifeHist>>

\* lines 420-427: create and trigger the handle if there is none, then
\* cv.wait releases the lock and blocks
SY_Wait(t) ==
    /\ ~crashed
    /\ pc[t] = "sy_wake"
    /\ EnsureHandle
    /\ m_async_mutex' = NoThread
    /\ pc' = [pc EXCEPT ![t] = "sy_wait"]
    /\ UNCHANGED <<m_runnables, nextTask, m_zombie_mutex, r, signaled,
                   syncTask, m_value_zombies, m_context_zombies, it, markedV,
                   markedC, defunctCtx, crashed>>
    /\ UNCHANGED <<lifeVars, gcVars, procVars, histVars, lifeHist>>

\* line 427: the wait re-acquires the lock and finds the predicate true
SY_Wakeup(t) ==
    /\ ~crashed
    /\ pc[t] = "sy_wait"
    /\ m_async_mutex = NoThread
    /\ WaitPredicate(t)
    /\ m_async_mutex' = t
    /\ pc' = [pc EXCEPT ![t] = "sy_unlock"]
    /\ UNCHANGED <<m_runnables, nextTask, m_async_handle, asyncSent,
                   m_zombie_mutex, r, signaled, syncTask, m_value_zombies,
                   m_context_zombies, it, markedV, markedC, defunctCtx, crashed>>
    /\ UNCHANGED <<lifeVars, gcVars, procVars, histVars, lifeHist>>

\* lines 428-429: unlock and return; cv and signaled go out of scope
SY_Return(t) ==
    /\ ~crashed
    /\ pc[t] = "sy_unlock"
    /\ m_async_mutex' = NoThread
    /\ syncDone' = syncDone \cup {syncTask[t]}
    /\ syncTask' = [syncTask EXCEPT ![t] = 0]
    /\ pc' = [pc EXCEPT ![t] = "idle"]
    /\ UNCHANGED <<m_runnables, nextTask, m_async_handle, asyncSent,
                   m_zombie_mutex, r, signaled, m_value_zombies,
                   m_context_zombies, it, markedV, markedC, defunctCtx, crashed>>
    /\ UNCHANGED <<executed, executedBy, released, releasedC, exitCount,
                   drainSaw>>
    /\ UNCHANGED <<lifeVars, gcVars, procVars, lifeHist>>

\* ------------------------------------------------------------- MarkZombie
\* lines 158-161 (JSValue): the object is never the group itself, so the
\* guard of line 158 passes; lock m_zombie_mutex, push_back, unlock.
\* An object is marked once, when its host-side owner lets go of it.
MZ_PushValue(t, v) ==
    /\ ~crashed
    /\ pc[t] = CallSite(t)
    /\ v \notin markedV
    /\ m_zombie_mutex = NoThread
    /\ m_value_zombies' = Append(m_value_zombies, v)
    /\ markedV' = markedV \cup {v}
    /\ pc' = [pc EXCEPT ![t] = "mz_wake"]
    /\ UNCHANGED <<m_runnables, nextTask, m_async_handle, asyncSent,
                   m_async_mutex, m_zombie_mutex, r, signaled, syncTask,
                   m_context_zombies, it, markedC, defunctCtx, crashed>>
    /\ UNCHANGED <<lifeVars, gcVars, procVars, histVars, lifeHist>>

\* lines 176-179 (JSContext)
MZ_PushContext(t, c) ==
    /\ ~crashed
    /\ pc[t] = CallSite(t)
    /\ c \notin markedC
    /\ m_zombie_mutex = NoThread
    /\ m_context_zombies' = Append(m_context_zombies, c)
    /\ markedC' = markedC \cup {c}
    /\ pc' = [pc EXCEPT ![t] = "mz_wake"]
    /\ UNCHANGED <<m_runnables, nextTask, m_async_handle, asyncSent,
                   m_async_mutex, m_zombie_mutex, r, signaled, syncTask,
                   m_value_zombies, it, markedV, defunctCtx, crashed>>
    /\ UNCHANGED <<lifeVars, gcVars, procVars, histVars, lifeHist>>

\* lines 163-171 and 181-189: lock m_async_mutex, create and trigger the
\* handle if there is none, unlock (the unique_lock's destructor)
MZ_Wake(t) ==
    /\ ~crashed
    /\ pc[t] = "mz_wake"
    /\ m_async_mutex = NoThread
    /\ EnsureHandle
    /\ pc' = [pc EXCEPT ![t] = CallSite(t)]
    /\ UNCHANGED <<m_runnables, nextTask, m_async_mutex, m_zombie_mutex, r,
                   signaled, syncTask, m_value_zombies, m_context_zombies, it,
                   markedV, markedC, defunctCtx, crashed>>
    /\ UNCHANGED <<lifeVars, gcVars, procVars, histVars, lifeHist>>

\* ------------------------------------------------------------ FreeZombies
\* Called by callback (on the owning thread) and by Dispose (on its caller).
\* line 194
FZ_Lock(t) ==
    /\ ~crashed
    /\ pc[t] = "fz_lock"
    /\ m_zombie_mutex = NoThread
    /\ m_zombie_mutex' = t
    /\ pc' = [pc EXCEPT ![t] = "fz_values"]
    /\ UNCHANGED <<m_runnables, nextTask, m_async_handle, asyncSent,
                   m_async_mutex, r, signaled, syncTask, m_value_zombies,
                   m_context_zombies, it, markedV, markedC, defunctCtx, crashed>>
    /\ UNCHANGED <<lifeVars, gcVars, procVars, histVars, lifeHist>>

\* lines 195-199, one iteration: take the head, erase it, value.reset()
FZ_Value(t) ==
    /\ ~crashed
    /\ pc[t] = "fz_values"
    /\ m_value_zombies # <<>>
    /\ m_value_zombies' = Tail(m_value_zombies)
    /\ released' = [released EXCEPT ![Head(m_value_zombies)] = t]
    /\ UNCHANGED <<pc, m_runnables, nextTask, m_async_handle, asyncSent,
                   m_async_mutex, m_zombie_mutex, r, signaled, syncTask,
                   m_context_zombies, it, markedV, markedC, defunctCtx, crashed>>
    /\ UNCHANGED <<executed, executedBy, syncDone, releasedC, exitCount,
                   drainSaw>>
    /\ UNCHANGED <<lifeVars, gcVars, procVars, lifeHist>>

\* lines 200-207: the value loop is over; it = m_context_zombies.begin()
FZ_ValuesDone(t) ==
    /\ ~crashed
    /\ pc[t] = "fz_values"
    /\ m_value_zombies = <<>>
    /\ it' = 1
    /\ pc' = [pc EXCEPT ![t] = "fz_ctx"]
    /\ UNCHANGED <<m_runnables, nextTask, m_async_handle, asyncSent,
                   m_async_mutex, m_zombie_mutex, r, signaled, syncTask,
                   m_value_zombies, m_context_zombies, markedV, markedC,
                   defunctCtx, crashed>>
    /\ UNCHANGED <<lifeVars, gcVars, procVars, histVars, lifeHist>>

\* ForcedExitNeeded without the IsDefunct() test
ForcedExitAlways(c) == TRUE

\* line 210: if (!ctx->IsDefunct())
ForcedExitNeeded(c) == c \notin defunctCtx

\* lines 208-227, one iteration: load *it, call process.exit(code) if the
\* context is not defunct, drop the local copy, ++it.  The list keeps its
\* own reference to the context until line 229.
FZ_Context(t) ==
    /\ ~crashed
    /\ pc[t] = "fz_ctx"
    /\ it <= Len(m_context_zombies)
    /\ LET c == m_context_zombies[it] IN
        /\ drainSaw' = [drainSaw EXCEPT
                          ![c] = IF c \in defunctCtx THEN "defunct" ELSE "live"]
        /\ IF ForcedExitNeeded(c)
           THEN exitCount' = [exitCount EXCEPT ![c] = @ + 1]
           ELSE UNCHANGED exitCount
    /\ it' = it + 1
    /\ UNCHANGED <<pc, m_runnables, nextTask, m_async_handle, asyncSent,
                   m_async_mutex, m_zombie_mutex, r, signaled, syncTask,
                   m_value_zombies, m_context_zombies, markedV, markedC,
                   defunctCtx, crashed>>
    /\ UNCHANGED <<executed, executedBy, syncDone, released, releasedC>>
    /\ UNCHANGED <<lifeVars, gcVars, procVars, lifeHist>>

\* The contexts whose references m_context_zombies.clear() lets go of
ClearedContexts == Range(m_context_zombies)

\* lines 229-230: m_context_zombies.clear() releases the contexts, unlock;
\* then back in the caller: callback line 242, or Dispose line 375
FZ_Clear(t) ==
    /\ ~crashed
    /\ pc[t] = "fz_ctx"
    /\ it > Len(m_context_zombies)
    /\ releasedC' = [c \in Contexts |->
                       IF c \in ClearedContexts THEN t ELSE releasedC[c]]
    /\ m_context_zombies' = <<>>
    /\ it' = 0
    /\ m_zombie_mutex' = NoThread
    /\ pc' = [pc EXCEPT ![t] = IF t \in inDispose THEN "dp_registry" ELSE "cb_lock"]
    /\ UNCHANGED <<m_runnables, nextTask, m_async_handle, asyncSent,
                   m_async_mutex, r, signaled, syncTask, m_value_zombies,
                   markedV, markedC, defunctCtx, crashed>>
    /\ UNCHANGED <<executed, executedBy, syncDone, released, exitCount,
                   drainSaw>>
    /\ disposeSteps' = IF t \in inDispose THEN Logged(t, "flush")
                       ELSE disposeSteps
    /\ UNCHANGED <<lifeVars, gcVars, procVars, lifeHistRest>>

\* --------------------------------------------------------------- callback
\* FrontOrNull taking m_runnables.back()
BackOrNull(q) == IF q = <<>> THEN NullTask ELSE q[Len(q)]

\* lines 243-244 and 293: m_runnables.empty() ? nullptr : m_runnables.front()
FrontOrNull(q) == IF q = <<>> THEN NullTask ELSE Head(q)

\* lines 235-240: the loop delivers the wake on the owning thread; the
\* ContextGroupData is read and deleted, FreeZombies is called
CB_Start ==
    /\ ~crashed
    /\ pc[Owner] = "idle"
    /\ asyncSent > 0
    /\ asyncSent' = asyncSent - 1
    /\ pc' = [pc EXCEPT ![Owner] = "fz_lock"]
    /\ UNCHANGED <<m_runnables, nextTask, m_async_handle, m_async_mutex,
                   m_zombie_mutex, r, signaled, syncTask, m_value_zombies,
                   m_context_zombies, it, markedV, markedC, defunctCtx, crashed>>
    /\ UNCHANGED <<lifeVars, gcVars, procVars, histVars, lifeHist>>

\* lines 242-244: lock, r = front or nullptr
CB_Lock ==
    /\ ~crashed
    /\ pc[Owner] = "cb_lock"
    /\ m_async_mutex = NoThread
    /\ m_async_mutex' = Owner
    /\ r' = FrontOrNull(m_runnables)
    /\ pc' = [pc EXCEPT ![Owner] = "cb_test"]
    /\ UNCHANGED <<m_runnables, nextTask, m_async_handle, asyncSent,
                   m_zombie_mutex, signaled, syncTask, m_value_zombies,
                   m_context_zombies, it, markedV, markedC, defunctCtx, crashed>>
    /\ UNCHANGED <<lifeVars, gcVars, procVars, histVars, lifeHist>>

\* lines 246-247: while (r) { unlock; ... the body starts
CB_Unlock ==
    /\ ~crashed
    /\ pc[Owner] = "cb_test"
    /\ r # NullTask
    /\ m_async_mutex' = NoThread
    /\ pc' = [pc EXCEPT ![Owner] = "cb_body"]
    /\ UNCHANGED <<m_runnables, nextTask, m_async_handle, asyncSent,
                   m_zombie_mutex, r, signaled, syncTask, m_value_zombies,
                   m_context_zombies, it, markedV, markedC, defunctCtx, crashed>>
    /\ UNCHANGED <<lifeVars, gcVars, procVars, histVars, lifeHist>>

\* lines 249-286 (and 409 for a sync_ task): the task body returns.  What
\* the body called on the group meanwhile are the actions of the owning
\* thread at its call site "cb_body".
CB_BodyEnd ==
    /\ ~crashed
    /\ pc[Owner] = "cb_body"
    /\ executed' = Append(executed, r.id)
    /\ executedBy' = Append(executedBy, Owner)
    /\ pc' = [pc EXCEPT ![Owner] =
                 IF r.waiter # NoThread THEN "cb_signal" ELSE "cb_relock"]
    /\ UNCHANGED <<m_runnables, nextTask, m_async_handle, asyncSent,
                   m_async_mutex, m_zombie_mutex, r, signaled, syncTask,
                   m_value_zombies, m_context_zombies, it, markedV, markedC,
                   defunctCtx, crashed>>
    /\ UNCHANGED <<syncDone, released, releasedC, exitCount, drainSaw>>
    /\ UNCHANGED <<lifeVars, gcVars, procVars, lifeHist>>

\* lines 410-413 of sync_'s wrapper: lock_guard, signaled = true, unlock
CB_Signal ==
    /\ ~crashed
    /\ pc[Owner] = "cb_signal"
    /\ m_async_mutex = NoThread
    /\ signaled' = [signaled EXCEPT ![r.waiter] = TRUE]
    /\ pc' = [pc EXCEPT ![Owner] = "cb_notify"]
    /\ UNCHANGED <<m_runnables, nextTask, m_async_handle, asyncSent,
                   m_async_mutex, m_zombie_mutex, r, syncTask,
                   m_value_zombies, m_context_zombies, it, markedV, markedC,
                   defunctCtx, crashed>>
    /\ UNCHANGED <<lifeVars, gcVars, procVars, histVars, lifeHist>>

\* line 414: cv.notify_one().  cv lives on the stack of the sync_ call; if
\* that call has returned, the notify uses a destroyed condition variable:
\* undefined behaviour, which either passes unnoticed or aborts the process.
CB_Notify ==
    /\ ~crashed
    /\ pc[Owner] = "cb_notify"
    /\ IF syncTask[r.waiter] = r.id
       THEN UNCHANGED crashed
       ELSE crashed' \in BOOLEAN
    /\ pc' = [pc EXCEPT ![Owner] = "cb_relock"]
    /\ UNCHANGED <<m_runnables, nextTask, m_async_handle, asyncSent,
                   m_async_mutex, m_zombie_mutex, r, signaled, syncTask,
                   m_value_zombies, m_context_zombies, it, markedV, markedC,
                   defunctCtx>>
    /\ UNCHANGED <<executed, executedBy, syncDone, released, releasedC,
                   exitCount, drainSaw>>
    /\ UNCHANGED <<lifeVars, gcVars, procVars, lifeHist>>

\* lines 288-293: lock, m_runnables.erase(m_runnables.begin()), delete r,
\* r = front or nullptr.  Erasing begin() of an empty vector is undefined
\* behaviour: it either leaves the queue as it is or aborts the process.
CB_Erase ==
    /\ ~crashed
    /\ pc[Owner] = "cb_relock"
    /\ m_async_mutex = NoThread
    /\ m_async_mutex' = Owner
    /\ IF m_runnables # <<>>
       THEN /\ m_runnables' = Tail(m_runnables)
            /\ UNCHANGED crashed
       ELSE /\ m_runnables' = m_runnables
            /\ crashed' \in BOOLEAN
    /\ r' = FrontOrNull(m_runnables')
    /\ pc' = [pc EXCEPT ![Owner] = "cb_test"]
    /\ UNCHANGED <<nextTask, m_async_handle, asyncSent, m_zombie_mutex,
                   signaled, syncTask, m_value_zombies, m_context_zombies, it,
                   markedV, markedC, defunctCtx>>
    /\ UNCHANGED <<executed, executedBy, syncDone, released, releasedC,
                   exitCount, drainSaw>>
    /\ UNCHANGED <<lifeVars, gcVars, procVars, lifeHist>>

\* lines 295-302: r is nullptr: uv_close, m_async_handle = nullptr, unlock
CB_Close ==
    /\ ~crashed
    /\ pc[Owner] = "cb_test"
    /\ r = NullTask
    /\ m_async_handle' = FALSE
    /\ m_async_mutex' = NoThread
    /\ pc' = [pc EXCEPT ![Owner] = "idle"]
    /\ UNCHANGED <<m_runnables, nextTask, asyncSent, m_zombie_mutex, r,
                   signaled, syncTask, m_value_zombies, m_context_zombies, it,
                   markedV, markedC, defunctCtx, crashed>>
    /\ UNCHANGED <<lifeVars, gcVars, procVars, histVars, lifeHist>>

\* ---------------------------------------------------------------- Dispose
\* DisposeGuard of a Dispose that does not test m_isDefunct
DisposeUnguarded == TRUE

\* line 349: if (!m_isDefunct)
DisposeGuard == ~m_isDefunct

\* What m_runnables.clear() of line 354 can leave behind.  It takes no
\* lock: while another thread holds m_async_mutex, and so may be inside
\* push_back, erase or front, the two accesses race, and the clear empties
\* the queue, or is lost, or the process aborts.
ClearOutcomes(t) ==
    IF m_async_mutex \in {NoThread, t}
    THEN {"cleared"}
    ELSE {"cleared", "lost", "abort"}

\* lines 349-356: the guard; then the self-reference, m_runnables.clear()
\* and RemoveGCPrologueCallback.  With the guard false the call returns at
\* once.  A Dispose call is not made while another one is running.
DP_Enter(t) ==
    /\ ~crashed
    /\ pc[t] = CallSite(t)
    /\ inDispose = {}
    /\ disposeCalls < MaxDispose
    /\ disposeCalls' = disposeCalls + 1
    /\ IF DisposeGuard
       THEN /\ \E o \in ClearOutcomes(t) :
                 /\ m_runnables' = IF o = "lost" THEN m_runnables ELSE <<>>
                 /\ crashed' = (o = "abort")
            /\ gcHooked' = FALSE
            /\ inDispose' = inDispose \cup {t}
            /\ pc' = [pc EXCEPT ![t] = "dp_values"]
            /\ disposeSteps' = Logged(t, "hook")
       ELSE UNCHANGED <<m_runnables, crashed, gcHooked, inDispose, pc,
                        disposeSteps>>
    /\ UNCHANGED <<nextTask, m_async_handle, asyncSent, m_async_mutex,
                   m_zombie_mutex, r, signaled, syncTask, m_value_zombies,
                   m_context_zombies, it, markedV, markedC, defunctCtx>>
    /\ UNCHANGED <<m_isDefunct, m_managedValues, m_managedContexts, registered,
                   m_manage_isolate, hasStartup, s_init_count, dpReturn>>
    /\ UNCHANGED <<disposeDone, disposedVals, isolateDisposed, registryErased,
                   startupFreed, v8Disposed>>
    /\ UNCHANGED <<gcVars, procVars, histVars>>

\* Dispose called from inside the loops of lines 358-369: the Dispose of a
\* managed object calls back into the group's Dispose on the same thread.
\* m_isDefunct is still false until line 370, so the guard of line 349
\* lets the nested call in; the suspended call resumes when it returns.
DP_Reenter(t) ==
    /\ ~crashed
    /\ pc[t] \in {"dp_values", "dp_contexts"}
    /\ disposeCalls < MaxDispose
    /\ disposeCalls' = disposeCalls + 1
    /\ IF DisposeGuard
       THEN /\ \E o \in ClearOutcomes(t) :
                 /\ m_runnables' = IF o = "lost" THEN m_runnables ELSE <<>>
                 /\ crashed' = (o = "abort")
            /\ gcHooked' = FALSE
            /\ dpReturn' = [dpReturn EXCEPT ![t] = <<pc[t]>> \o @]
            /\ pc' = [pc EXCEPT ![t] = "dp_values"]
            /\ disposeSteps' = Append(disposeSteps,
                   [step |-> "hook", depth |-> Len(dpReturn[t]) + 1])
       ELSE UNCHANGED <<m_runnables, crashed, gcHooked, dpReturn, pc,
                        disposeSteps>>
    /\ UNCHANGED <<nextTask, m_async_handle, asyncSent, m_async_mutex,
                   m_zombie_mutex, r, signaled, syncTask, m_value_zombies,
                   m_context_zombies, it, markedV, markedC, defunctCtx>>
    /\ UNCHANGED <<m_isDefunct, m_managedValues, m_managedContexts, registered,
                   m_manage_isolate, hasStartup, s_init_count, inDispose>>
    /\ UNCHANGED <<gcVars, procVars, histVars, lifeHistRest>>

\* (*it).lock() of lines 359 and 365: a managed object's weak reference
\* resolves until the object's last reference, the zombie list's, is gone
LiveValues == {v \in Range(m_managedValues) : released[v] = NoThread}
LiveContexts == {c \in Range(m_managedContexts) : releasedC[c] = NoThread}

\* lines 358-363: valid->Dispose() on every managed value still alive.  If
\* a nested Dispose has cleared the list under the loop (line 371), the
\* loop's iterator is invalid: undefined behaviour, which lets the loop end
\* or aborts the process.
DP_Values(t) ==
    /\ ~crashed
    /\ pc[t] = "dp_values"
    /\ disposedVals' = disposedVals \cup LiveValues
    /\ IF m_isDefunct THEN crashed' \in BOOLEAN ELSE UNCHANGED crashed
    /\ disposeSteps' = Logged(t, "values")
    /\ pc' = [pc EXCEPT ![t] = "dp_contexts"]
    /\ UNCHANGED <<m_runnables, nextTask, m_async_handle, asyncSent,
                   m_async_mutex, m_zombie_mutex, r, signaled, syncTask,
                   m_value_zombies, m_context_zombies, it, markedV, markedC,
                   defunctCtx>>
    /\ UNCHANGED <<disposeDone, isolateDisposed,
                   registryErased, startupFreed, v8Disposed>>
    /\ UNCHANGED <<lifeVars, gcVars, procVars, histVars>>

\* lines 364-369: valid->Dispose() on every managed context still alive,
\* which leaves the context defunct
DP_Contexts(t) ==
    /\ ~crashed
    /\ pc[t] = "dp_contexts"
    /\ defunctCtx' = defunctCtx \cup LiveContexts
    /\ IF m_isDefunct THEN crashed' \in BOOLEAN ELSE UNCHANGED crashed
    /\ pc' = [pc EXCEPT ![t] = "dp_defunct"]
    /\ UNCHANGED <<m_runnables, nextTask, m_async_handle, asyncSent,
                   m_async_mutex, m_zombie_mutex, r, signaled, syncTask,
                   m_value_zombies, m_context_zombies, it, markedV, markedC>>
    /\ disposeSteps' = Logged(t, "contexts")
    /\ UNCHANGED <<lifeVars, gcVars, procVars, histVars, lifeHistRest>>

\* AfterDefunct of a Dispose that goes on to the registry without the
\* call of FreeZombies
AfterDefunctNoFlush == "dp_registry"

\* line 373: after the flag is set and the managed lists are cleared,
\* FreeZombies() is entered
AfterDefunct == "fz_lock"

\* lines 370-373: m_isDefunct = true, the managed lists are cleared,
\* FreeZombies is called on this thread
DP_Defunct(t) ==
    /\ ~crashed
    /\ pc[t] = "dp_defunct"
    /\ m_isDefunct' = TRUE
    /\ m_managedValues' = <<>>
    /\ m_managedContexts' = <<>>
    /\ pc' = [pc EXCEPT ![t] = AfterDefunct]
    /\ UNCHANGED <<m_runnables, nextTask, m_async_handle, asyncSent,
                   m_async_mutex, m_zombie_mutex, r, signaled, syncTask,
                   m_value_zombies, m_context_zombies, it, markedV, markedC,
                   defunctCtx, crashed>>
    /\ UNCHANGED <<gcHooked, registered, m_manage_isolate, hasStartup,
                   s_init_count, inDispose, dpReturn, disposeCalls>>
    /\ disposeSteps' = Logged(t, "defunct")
    /\ UNCHANGED <<gcVars, procVars, histVars, lifeHistRest>>

\* lines 375-379: lock s_mutex, erase the group's entry if there is one,
\* unlock
DP_Registry(t) ==
    /\ ~crashed
    /\ pc[t] = "dp_registry"
    /\ s_mutex = NoThread
    /\ IF registered
       THEN /\ registered' = FALSE
            /\ registryErased' = registryErased + 1
       ELSE UNCHANGED <<registered, registryErased>>
    /\ disposeSteps' = Logged(t, "registry")
    /\ pc' = [pc EXCEPT ![t] = "dp_isolate"]
    /\ UNCHANGED <<m_runnables, nextTask, m_async_handle, asyncSent,
                   m_async_mutex, m_zombie_mutex, r, signaled, syncTask,
                   m_value_zombies, m_context_zombies, it, markedV, markedC,
                   defunctCtx, crashed>>
    /\ UNCHANGED <<m_isDefunct, m_managedValues, m_managedContexts, gcHooked,
                   m_manage_isolate, hasStartup, s_init_count, inDispose,
                   dpReturn, disposeCalls>>
    /\ UNCHANGED <<disposeDone, disposedVals, isolateDisposed,
                   startupFreed, v8Disposed>>
    /\ UNCHANGED <<gcVars, procVars, histVars>>

\* lines 380-384: m_isolate->Dispose() if the group owns the isolate,
\* else dispose_v8() (lines 81-94: the decrement is commented out, V8 is
\* shut down if s_init_count is 0)
DP_Isolate(t) ==
    /\ ~crashed
    /\ pc[t] = "dp_isolate"
    /\ m_manage_isolate \/ s_mutex = NoThread
    /\ IF m_manage_isolate
       THEN /\ isolateDisposed' = isolateDisposed + 1
            /\ UNCHANGED v8Disposed
       ELSE /\ v8Disposed' = IF s_init_count = 0 THEN v8Disposed + 1 ELSE v8Disposed
            /\ UNCHANGED isolateDisposed
    /\ disposeSteps' = Logged(t, IF m_manage_isolate THEN "isolate"
                                             ELSE "runtime")
    /\ pc' = [pc EXCEPT ![t] = "dp_startup"]
    /\ UNCHANGED <<m_runnables, nextTask, m_async_handle, asyncSent,
                   m_async_mutex, m_zombie_mutex, r, signaled, syncTask,
                   m_value_zombies, m_context_zombies, it, markedV, markedC,
                   defunctCtx, crashed>>
    /\ UNCHANGED <<disposeDone, disposedVals, registryErased,
                   startupFreed>>
    /\ UNCHANGED <<lifeVars, gcVars, procVars, histVars>>

\* lines 386-391: delete [] m_startup_data.data if there is a buffer,
\* wait.reset(), return
DP_Startup(t) ==
    /\ ~crashed
    /\ pc[t] = "dp_startup"
    /\ startupFreed' = IF hasStartup THEN startupFreed + 1 ELSE startupFreed
    /\ disposeSteps' = Logged(t, "startup")
    /\ inDispose' = IF dpReturn[t] = <<>> THEN inDispose \ {t} ELSE inDispose
    /\ dpReturn' = [dpReturn EXCEPT ![t] = IF @ = <<>> THEN @ ELSE Tail(@)]
    /\ disposeDone' = disposeDone + 1
    /\ pc' = [pc EXCEPT ![t] = IF dpReturn[t] = <<>> THEN CallSite(t)
                               ELSE Head(dpReturn[t])]
    /\ UNCHANGED <<m_runnables, nextTask, m_async_handle, asyncSent,
                   m_async_mutex, m_zombie_mutex, r, signaled, syncTask,
                   m_value_zombies, m_context_zombies, it, markedV, markedC,
                   defunctCtx, crashed>>
    /\ UNCHANGED <<m_isDefunct, m_managedValues, m_managedContexts, gcHooked,
                   registered, m_manage_isolate, hasStartup, s_init_count,
                   disposeCalls>>
    /\ UNCHANGED <<disposedVals, isolateDisposed,
                   registryErased, v8Disposed>>
    /\ UNCHANGED <<gcVars, procVars, histVars>>

\* ------------------------------------------------------------------- Next
Schedule(t) ==
    \/ SJ_Push(t)
    \/ SJ_Wake(t)
    \/ SY_Push(t)
    \/ SY_Wait(t)
    \/ SY_Wakeup(t)
    \/ SY_Return(t)

MarkZombie(t) ==
    \/ \E v \in Values : MZ_PushValue(t, v)
    \/ \E c \in Contexts : MZ_PushContext(t, c)
    \/ MZ_Wake(t)

FreeZombies(t) ==
    \/ FZ_Lock(t)
    \/ FZ_Value(t)
    \/ FZ_ValuesDone(t)
    \/ FZ_Context(t)
    \/ FZ_Clear(t)

callback ==
    \/ CB_Start
    \/ CB_Lock
    \/ CB_Unlock
    \/ CB_BodyEnd
    \/ CB_Signal
    \/ CB_Notify
    \/ CB_Erase
    \/ CB_Close

\* The group in use: no Dispose
Next ==
    \/ \E t \in Threads : Schedule(t)
    \/ \E t \in Threads : MarkZombie(t)
    \/ \E t \in Threads : FreeZombies(t)
    \/ callback

Spec == Init /\ [][Next]_vars

Dispose(t) ==
    \/ DP_Enter(t)
    \/ DP_Values(t)
    \/ DP_Contexts(t)
    \/ DP_Defunct(t)
    \/ DP_Registry(t)
    \/ DP_Isolate(t)
    \/ DP_Startup(t)

\* The group in use and disposed of.  Dispose calls do not overlap one
\* another; they overlap everything else.
NextDispose ==
    \/ \E t \in Threads : Schedule(t)
    \/ \E t \in Threads : MarkZombie(t)
    \/ \E t \in Threads : FreeZombies(t)
    \/ callback
    \/ \E t \in Threads : Dispose(t)

SpecDispose == Init /\ [][NextDispose]_vars

\* The group as any of the three constructors leaves it: lines 96-113
\* (fresh isolate), 115-131 (adopted isolate; init_v8 is not called, so
\* s_init_count is whatever the process has), 133-154 (snapshot)
InitLife ==
    /\ InitCommon
    /\ \/ /\ m_manage_isolate = TRUE
          /\ hasStartup \in BOOLEAN
          /\ s_init_count = 1
       \/ /\ m_manage_isolate = FALSE
          /\ hasStartup = FALSE
          /\ s_init_count \in {0, 1}

\* The life cycle alone: a group whose event loop is not running, on which
\* threads mark zombies and call Dispose one after another
NextLife ==
    \/ \E t \in Workers : MarkZombie(t)
    \/ \E t \in Workers : FreeZombies(t)
    \/ \E t \in Workers : Dispose(t)

SpecLife == InitLife /\ [][NextLife]_vars

\* The life cycle with the owning thread's event loop running: the drain
\* cycles that MarkZombie wakes free zombies while threads call Dispose
NextTeardown ==
    \/ NextLife
    \/ FreeZombies(Owner)
    \/ CB_Start
    \/ CB_Lock
    \/ CB_Close

SpecTeardown == InitLife /\ [][NextTeardown]_vars

\* The life cycle with managed objects whose Dispose calls the group's
\* Dispose
NextReenter ==
    \/ NextLife
    \/ \E t \in Workers : DP_Reenter(t)

SpecReenter == InitLife /\ [][NextReenter]_vars

\* ------------------------------------------------------ GC callback list
GCCallbacks == {"cbA", "cbB"}
GCData == {"d1", "d2"}

\* new struct GCCallback: an address no live entry has
FreshEntry == CHOOSE n \in 1..(Len(m_gc_callbacks) + 1) :
                 \A i \in 1..Len(m_gc_callbacks) : m_gc_callbacks[i].id # n

\* lines 305-311
RegisterGCCallback(cb, data) ==
    /\ Len(m_gc_callbacks) < MaxGC
    /\ m_gc_callbacks' = Append(m_gc_callbacks,
                                [id |-> FreshEntry, cb |-> cb, data |-> data])
    /\ lastGC' = [op |-> "register", cb |-> cb, data |-> data,
                  before |-> m_gc_callbacks]
    /\ UNCHANGED <<gcArgs, gcCalls>>
    /\ UNCHANGED <<dispatchVars, lifeVars, histVars, lifeHist, procVars>>

\* GCMatches comparing the callback alone
GCMatchesCallback(item, cb, data) == item.cb = cb

\* line 320: item->cb == cb && item->data == data
GCMatches(item, cb, data) == item.cb = cb /\ item.data = data

\* line 321: m_gc_callbacks.remove(item) removes every element equal to
\* item, a unique_ptr: the elements holding that same entry
ListRemove(list, item) == SelectSeq(list, LAMBDA e : e.id # item.id)

\* lines 315-323: the loop.  pos is the iterator; it is advanced before the
\* removal, so it stays on the element that followed item.
RECURSIVE UnregisterLoop(_, _, _, _)
UnregisterLoop(list, pos, cb, data) ==
    IF pos > Len(list)
    THEN list
    ELSE IF GCMatches(list[pos], cb, data)
         THEN UnregisterLoop(ListRemove(list, list[pos]), pos, cb, data)
         ELSE UnregisterLoop(list, pos + 1, cb, data)

\* lines 313-324
UnregisterGCCallback(cb, data) ==
    /\ m_gc_callbacks' = UnregisterLoop(m_gc_callbacks, 1, cb, data)
    /\ lastGC' = [op |-> "unregister", cb |-> cb, data |-> data,
                  before |-> m_gc_callbacks]
    /\ UNCHANGED <<gcArgs, gcCalls>>
    /\ UNCHANGED <<dispatchVars, lifeVars, histVars, lifeHist, procVars>>

NextGC ==
    \/ \E cb \in GCCallbacks, data \in GCData : RegisterGCCallback(cb, data)
    \/ \E cb \in GCCallbacks, data \in GCData : UnregisterGCCallback(cb, data)

SpecGC == Init /\ [][NextGC]_vars

\* ------------------------------------------------- the GC prologue event
\* GroupFound of a lookup that finds the group whatever the map holds
GroupFoundAlways == TRUE

\* line 53: s_isolate_map.count(isolate), for the isolate of the group
GroupFound == registered

\* line 333: item->cb(type, flags, item->data)
GCInvoke(item, type, flags) ==
    [cb |-> item.cb, type |-> type, flags |-> flags, data |-> item.data]

\* lines 328-334: the loop from begin() to end(); pos is the iterator
RECURSIVE GCPrologueCallback(_, _, _, _)
GCPrologueCallback(list, pos, type, flags) ==
    IF pos > Len(list)
    THEN <<>>
    ELSE <<GCInvoke(list[pos], type, flags)>>
             \o GCPrologueCallback(list, pos + 1, type, flags)

\* lines 50-51: V8 calls StaticGCPrologueCallback on thread t; it does so
\* only while the callback is installed on the isolate
GCP_Enter(t, type, flags) ==
    /\ ~crashed
    /\ pc[t] = "idle"
    /\ gcHooked
    /\ gcArgs' = [gcArgs EXCEPT ![t] = [type |-> type, flags |-> flags]]
    /\ pc' = [pc EXCEPT ![t] = "gc_lock"]
    /\ UNCHANGED <<m_runnables, nextTask, m_async_handle, asyncSent,
                   m_async_mutex, m_zombie_mutex, r, signaled, syncTask,
                   m_value_zombies, m_context_zombies, it, markedV, markedC,
                   defunctCtx, crashed>>
    /\ UNCHANGED <<m_gc_callbacks, lastGC, gcCalls>>
    /\ UNCHANGED <<lifeVars, histVars, lifeHist, procVars>>

\* line 52
GCP_Lock(t) ==
    /\ ~crashed
    /\ pc[t] = "gc_lock"
    /\ s_mutex = NoThread
    /\ s_mutex' = t
    /\ pc' = [pc EXCEPT ![t] = "gc_call"]
    /\ UNCHANGED <<m_runnables, nextTask, m_async_handle, asyncSent,
                   m_async_mutex, m_zombie_mutex, r, signaled, syncTask,
                   m_value_zombies, m_context_zombies, it, markedV, markedC,
                   defunctCtx, crashed>>
    /\ UNCHANGED <<s_isolate_map, groups, liveIsolates, hookedIsolates, loc,
                   v8Log, entryLog, lastNew>>
    /\ UNCHANGED <<lifeVars, gcVars, histVars, lifeHist>>

\* lines 53-55: if the map has the isolate, the group's
\* GCPrologueCallback(type, flags) runs through its list
GCP_Callbacks(t) ==
    /\ ~crashed
    /\ pc[t] = "gc_call"
    /\ gcCalls' = IF GroupFound
                  THEN GCPrologueCallback(m_gc_callbacks, 1, gcArgs[t].type,
                                          gcArgs[t].flags)
                  ELSE <<>>
    /\ pc' = [pc EXCEPT ![t] = "gc_unlock"]
    /\ UNCHANGED <<m_runnables, nextTask, m_async_handle, asyncSent,
                   m_async_mutex, m_zombie_mutex, r, signaled, syncTask,
                   m_value_zombies, m_context_zombies, it, markedV, markedC,
                   defunctCtx, crashed>>
    /\ UNCHANGED <<m_gc_callbacks, lastGC, gcArgs>>
    /\ UNCHANGED <<lifeVars, histVars, lifeHist, procVars>>

\* line 56: unlock; the event has been delivered
GCP_Unlock(t) ==
    /\ ~crashed
    /\ pc[t] = "gc_unlock"
    /\ s_mutex' = NoThread
    /\ gcArgs' = [gcArgs EXCEPT ![t] = NoArgs]
    /\ gcCalls' = <<>>
    /\ pc' = [pc EXCEPT ![t] = "idle"]
    /\ UNCHANGED <<m_runnables, nextTask, m_async_handle, asyncSent,
                   m_async_mutex, m_zombie_mutex, r, signaled, syncTask,
                   m_value_zombies, m_context_zombies, it, markedV, markedC,
                   defunctCtx, crashed>>
    /\ UNCHANGED <<s_isolate_map, groups, liveIsolates, hookedIsolates, loc,
                   v8Log, entryLog, lastNew>>
    /\ UNCHANGED <<m_gc_callbacks, lastGC>>
    /\ UNCHANGED <<lifeVars, histVars, lifeHist>>

\* GC prologue events of the group's isolate arrive on the worker threads
\* while callbacks are registered and the group is disposed of (with no
\* zombies pending)
NextGCEvent ==
    \/ \E cb \in GCCallbacks, data \in GCData : RegisterGCCallback(cb, data)
    \/ \E t \in Workers, type \in GCTypes, flags \in GCFlags :
           GCP_Enter(t, type, flags)
    \/ \E t \in Workers : GCP_Lock(t)
    \/ \E t \in Workers : GCP_Callbacks(t)
    \/ \E t \in Workers : GCP_Unlock(t)
    \/ \E t \in Workers : Dispose(t)
    \/ \E t \in Workers : FZ_Lock(t)
    \/ \E t \in Workers : FZ_ValuesDone(t)
    \/ \E t \in Workers : FZ_Clear(t)

SpecGCEvent == Init /\ [][NextGCEvent]_vars
\* ======================================================= the process view
\* Several groups are constructed and disposed of by the worker threads.
\* Of a group only what the process shares is kept: its isolate, whether it
\* owns it, its registry entry.  Lines 349-373 of Dispose, which work on
\* the group's own state, are one step here.

\* Every variable of the single group but pc, crashed and s_init_count
oneGroupVars == <<m_runnables, nextTask, m_async_handle, asyncSent,
                  m_async_mutex, m_zombie_mutex, r, signaled, syncTask,
                  m_value_zombies, m_context_zombies, it, markedV, markedC,
                  defunctCtx, m_isDefunct, m_managedValues, m_managedContexts,
                  gcHooked, registered, m_manage_isolate, hasStartup,
                  inDispose, dpReturn, disposeCalls, gcVars, histVars, lifeHist>>

\* line 60: s_init_count = 0 when the process starts
InitRegistry ==
    /\ InitCommon
    /\ m_manage_isolate = TRUE
    /\ hasStartup = FALSE
    /\ s_init_count = 0

\* The group a constructor call is made for: the next one not yet built
NextGroup(g) ==
    /\ groups[g].state = "none"
    /\ \A h \in Groups : h < g => groups[h].state # "none"

\* Positions at which a thread's next step reads or writes s_isolate_map
RegistryAccessSites == {"ct_write", "ca_write", "dr_erase", "gc_lookup"}

\* Another thread is at an access of its own
RegistryRace(t) == \E u \in Workers \ {t} : pc[u] \in RegistryAccessSites

\* ------------------------------------------------------ ContextGroup::New
\* What ftell can return for the opened file: -1 on error, else its size
FileSizes == (0 - 1)..MaxFile

\* lines 456-474: data stays nullptr if fopen fails; new char[size] throws
\* for the size -1 of a failed ftell; data is reset to nullptr if fread
\* returned less than size; then the snapshot constructor is taken if data
\* is not null, else the default constructor
NewOutcome(opens, size, read) ==
    IF ~opens THEN "default"
    ELSE IF size < 0 THEN "throws"
    ELSE IF read # size THEN "default"
    ELSE "snapshot"

\* lines 451-475, up to the constructor's call of init_v8; and lines
\* 137-142: the snapshot constructor keeps the buffer and its size
New(t, g, opens, size, read) ==
    /\ ~crashed
    /\ pc[t] = "idle"
    /\ NextGroup(g)
    /\ LET out == NewOutcome(opens, size, read) IN
       /\ lastNew' = [opens |-> opens, size |-> size, read |-> read,
                      out |-> out]
       /\ IF out = "throws"
          THEN UNCHANGED <<pc, groups, loc>>
          ELSE /\ groups' = [groups EXCEPT ![g] =
                     [@ EXCEPT !.state = "constructing", !.ctor = out,
                               !.startup = (out = "snapshot" /\ size > 0)]]
               /\ loc' = [loc EXCEPT ![t] = [g |-> g, iso |-> NoIsolate]]
               /\ pc' = [pc EXCEPT ![t] = "ct_init"]
    /\ UNCHANGED <<crashed, s_init_count, s_mutex, s_isolate_map, liveIsolates,
                   hookedIsolates, v8Log, entryLog>>
    /\ UNCHANGED oneGroupVars

\* ------------------------------------------- the constructors (lines 96-154)
\* lines 64-79: under s_mutex, if (s_init_count++ == 0) initialise V8
init_v8(t) ==
    /\ ~crashed
    /\ pc[t] = "ct_init"
    /\ s_mutex = NoThread
    /\ v8Log' = IF s_init_count = 0 THEN Append(v8Log, "init") ELSE v8Log
    /\ s_init_count' = s_init_count + 1
    /\ pc' = [pc EXCEPT ![t] = "ct_new"]
    /\ UNCHANGED <<crashed, s_mutex, s_isolate_map, groups, liveIsolates,
                   hookedIsolates, loc, entryLog, lastNew>>
    /\ UNCHANGED oneGroupVars

\* lines 99-108 and 136-148: m_isolate = Isolate::New(...), an address no
\* live isolate has; m_manage_isolate = true
Ctor_IsolateNew(t) ==
    /\ ~crashed
    /\ pc[t] = "ct_new"
    /\ \E i \in FreshIsolates \ liveIsolates :
         /\ groups' = [groups EXCEPT ![loc[t].g] =
                [@ EXCEPT !.m_isolate = i, !.m_manage_isolate = TRUE]]
         /\ liveIsolates' = liveIsolates \cup {i}
         /\ loc' = [loc EXCEPT ![t].iso = i]
    /\ pc' = [pc EXCEPT ![t] = "ct_write"]
    /\ UNCHANGED <<crashed, s_init_count, s_mutex, s_isolate_map,
                   hookedIsolates, v8Log, entryLog, lastNew>>
    /\ UNCHANGED oneGroupVars

\* lines 109-112 and 150-153: s_isolate_map[m_isolate] = this, with no
\* lock taken, then AddGCPrologueCallback.  If another thread is at an
\* access of the map the two race: the entry is written, or is lost, or
\* the process aborts.
Ctor_Write(t) ==
    /\ ~crashed
    /\ pc[t] = "ct_write"
    /\ \E o \in (IF RegistryRace(t) THEN {"written", "lost", "abort"}
                 ELSE {"written"}) :
         /\ s_isolate_map' = IF o = "written"
                             THEN [s_isolate_map EXCEPT ![loc[t].iso] = loc[t].g]
                             ELSE s_isolate_map
         /\ crashed' = (o = "abort")
    /\ hookedIsolates' = hookedIsolates \cup {loc[t].iso}
    /\ groups' = [groups EXCEPT ![loc[t].g].state = "live"]
    /\ loc' = [loc EXCEPT ![t] = NoLocal]
    /\ pc' = [pc EXCEPT ![t] = "idle"]
    /\ UNCHANGED <<s_init_count, s_mutex, liveIsolates, v8Log, entryLog,
                   lastNew>>
    /\ UNCHANGED oneGroupVars

\* lines 115-124: the adopting constructor takes the caller's isolate;
\* init_v8 is not called
Ctor_Adopt(t, g, i) ==
    /\ ~crashed
    /\ pc[t] = "idle"
    /\ NextGroup(g)
    /\ i \in liveIsolates
    /\ groups' = [groups EXCEPT ![g] =
           [@ EXCEPT !.state = "constructing", !.ctor = "adopt",
                     !.m_isolate = i, !.m_manage_isolate = FALSE]]
    /\ loc' = [loc EXCEPT ![t] = [g |-> g, iso |-> i]]
    /\ pc' = [pc EXCEPT ![t] = "ca_lock"]
    /\ UNCHANGED <<crashed, s_init_count, s_mutex, s_isolate_map, liveIsolates,
                   hookedIsolates, v8Log, entryLog, lastNew>>
    /\ UNCHANGED oneGroupVars

\* line 126
Ctor_AdoptLock(t) ==
    /\ ~crashed
    /\ pc[t] = "ca_lock"
    /\ s_mutex = NoThread
    /\ s_mutex' = t
    /\ pc' = [pc EXCEPT ![t] = "ca_write"]
    /\ UNCHANGED <<crashed, s_init_count, s_isolate_map, groups, liveIsolates,
                   hookedIsolates, loc, v8Log, entryLog, lastNew>>
    /\ UNCHANGED oneGroupVars

\* line 127: s_isolate_map[m_isolate] = this; an entry another group had
\* for the isolate is replaced
Ctor_AdoptWrite(t) ==
    /\ ~crashed
    /\ pc[t] = "ca_write"
    /\ s_isolate_map' = [s_isolate_map EXCEPT ![loc[t].iso] = loc[t].g]
    /\ entryLog' = IF s_isolate_map[loc[t].iso] \notin {NoGroup, loc[t].g}
                   THEN Append(entryLog, [of |-> s_isolate_map[loc[t].iso],
                                          by |-> loc[t].g,
                                          how |-> "overwrite"])
                   ELSE entryLog
    /\ pc' = [pc EXCEPT ![t] = "ca_unlock"]
    /\ UNCHANGED <<crashed, s_init_count, s_mutex, groups, liveIsolates,
                   hookedIsolates, loc, v8Log, lastNew>>
    /\ UNCHANGED oneGroupVars

\* lines 128-130: unlock, AddGCPrologueCallback
Ctor_AdoptUnlock(t) ==
    /\ ~crashed
    /\ pc[t] = "ca_unlock"
    /\ s_mutex' = NoThread
    /\ hookedIsolates' = hookedIsolates \cup {loc[t].iso}
    /\ groups' = [groups EXCEPT ![loc[t].g].state = "live"]
    /\ loc' = [loc EXCEPT ![t] = NoLocal]
    /\ pc' = [pc EXCEPT ![t] = "idle"]
    /\ UNCHANGED <<crashed, s_init_count, s_isolate_map, liveIsolates, v8Log,
                   entryLog, lastNew>>
    /\ UNCHANGED oneGroupVars

\* ------------------------------------------ Dispose, as the process sees it
DisposeSites == {"dr_lock", "dr_erase", "dr_unlock", "dr_isolate"}

\* lines 349-373: the guard; RemoveGCPrologueCallback on the group's
\* isolate, the group's own teardown, m_isDefunct = true.  A call on a
\* defunct group returns at once.  No two threads call Dispose on one
\* group at a time.
G_Dispose(t, g) ==
    /\ ~crashed
    /\ pc[t] = "idle"
    /\ groups[g].state \in {"live", "disposed"}
    /\ \A u \in Workers : pc[u] \in DisposeSites => loc[u].g # g
    /\ IF ~groups[g].m_isDefunct
       THEN /\ hookedIsolates' = hookedIsolates \ {groups[g].m_isolate}
            /\ groups' = [groups EXCEPT ![g].m_isDefunct = TRUE]
            /\ loc' = [loc EXCEPT ![t] = [g |-> g, iso |-> groups[g].m_isolate]]
            /\ pc' = [pc EXCEPT ![t] = "dr_lock"]
       ELSE UNCHANGED <<hookedIsolates, groups, loc, pc>>
    /\ UNCHANGED <<crashed, s_init_count, s_mutex, s_isolate_map, liveIsolates,
                   v8Log, entryLog, lastNew>>
    /\ UNCHANGED oneGroupVars

\* line 375
G_DisposeLock(t) ==
    /\ ~crashed
    /\ pc[t] = "dr_lock"
    /\ s_mutex = NoThread
    /\ s_mutex' = t
    /\ pc' = [pc EXCEPT ![t] = "dr_erase"]
    /\ UNCHANGED <<crashed, s_init_count, s_isolate_map, groups, liveIsolates,
                   hookedIsolates, loc, v8Log, entryLog, lastNew>>
    /\ UNCHANGED oneGroupVars

\* lines 376-378: if the map has an entry for m_isolate, erase it,
\* whichever group the entry names
G_DisposeErase(t) ==
    /\ ~crashed
    /\ pc[t] = "dr_erase"
    /\ IF s_isolate_map[loc[t].iso] # NoGroup
       THEN /\ s_isolate_map' = [s_isolate_map EXCEPT ![loc[t].iso] = NoGroup]
            /\ entryLog' = Append(entryLog, [of |-> s_isolate_map[loc[t].iso],
                                             by |-> loc[t].g,
                                             how |-> "erase"])
       ELSE UNCHANGED <<s_isolate_map, entryLog>>
    /\ pc' = [pc EXCEPT ![t] = "dr_unlock"]
    /\ UNCHANGED <<crashed, s_init_count, s_mutex, groups, liveIsolates,
                   hookedIsolates, loc, v8Log, lastNew>>
    /\ UNCHANGED oneGroupVars

\* line 379
G_DisposeUnlock(t) ==
    /\ ~crashed
    /\ pc[t] = "dr_unlock"
    /\ s_mutex' = NoThread
    /\ pc' = [pc EXCEPT ![t] = "dr_isolate"]
    /\ UNCHANGED <<crashed, s_init_count, s_isolate_map, groups, liveIsolates,
                   hookedIsolates, loc, v8Log, entryLog, lastNew>>
    /\ UNCHANGED oneGroupVars

\* lines 380-381 and 386-391: the group owns its isolate:
\* m_isolate->Dispose(); the startup buffer is freed; return
G_DisposeIsolate(t) ==
    /\ ~crashed
    /\ pc[t] = "dr_isolate"
    /\ groups[loc[t].g].m_manage_isolate
    /\ liveIsolates' = liveIsolates \ {loc[t].iso}
    /\ hookedIsolates' = hookedIsolates \ {loc[t].iso}
    /\ groups' = [groups EXCEPT ![loc[t].g].state = "disposed"]
    /\ loc' = [loc EXCEPT ![t] = NoLocal]
    /\ pc' = [pc EXCEPT ![t] = "idle"]
    /\ UNCHANGED <<crashed, s_init_count, s_mutex, s_isolate_map, v8Log,
                   entryLog, lastNew>>
    /\ UNCHANGED oneGroupVars

\* lines 382-383 and 81-94: the group borrowed its isolate: dispose_v8().
\* Under s_mutex: the decrement of s_init_count is commented out; if
\* s_init_count is 0, V8::Dispose and V8::ShutdownPlatform.  Then return.
dispose_v8(t) ==
    /\ ~crashed
    /\ pc[t] = "dr_isolate"
    /\ ~groups[loc[t].g].m_manage_isolate
    /\ s_mutex = NoThread
    /\ v8Log' = IF s_init_count = 0 THEN Append(v8Log, "shutdown") ELSE v8Log
    /\ groups' = [groups EXCEPT ![loc[t].g].state = "disposed"]
    /\ loc' = [loc EXCEPT ![t] = NoLocal]
    /\ pc' = [pc EXCEPT ![t] = "idle"]
    /\ UNCHANGED <<crashed, s_init_count, s_mutex, s_isolate_map, liveIsolates,
                   hookedIsolates, entryLog, lastNew>>
    /\ UNCHANGED oneGroupVars

\* ------------------------------- StaticGCPrologueCallback (lines 50-57)
\* V8 delivers a GC prologue event of isolate i on thread t
SGC_Enter(t, i) ==
    /\ ~crashed
    /\ pc[t] = "idle"
    /\ i \in hookedIsolates \cap liveIsolates
    /\ loc' = [loc EXCEPT ![t] = [g |-> NoGroup, iso |-> i]]
    /\ pc' = [pc EXCEPT ![t] = "gc_lock"]
    /\ UNCHANGED <<crashed, s_init_count, s_mutex, s_isolate_map, groups,
                   liveIsolates, hookedIsolates, v8Log, entryLog, lastNew>>
    /\ UNCHANGED oneGroupVars

\* line 52
SGC_Lock(t) ==
    /\ ~crashed
    /\ pc[t] = "gc_lock"
    /\ s_mutex = NoThread
    /\ s_mutex' = t
    /\ pc' = [pc EXCEPT ![t] = "gc_lookup"]
    /\ UNCHANGED <<crashed, s_init_count, s_isolate_map, groups, liveIsolates,
                   hookedIsolates, loc, v8Log, entryLog, lastNew>>
    /\ UNCHANGED oneGroupVars

\* lines 53-55: the group found for the isolate, if any, gets the event
SGC_Lookup(t) ==
    /\ ~crashed
    /\ pc[t] = "gc_lookup"
    /\ loc' = [loc EXCEPT ![t].g = s_isolate_map[loc[t].iso]]
    /\ pc' = [pc EXCEPT ![t] = "gc_unlock"]
    /\ UNCHANGED <<crashed, s_init_count, s_mutex, s_isolate_map, groups,
                   liveIsolates, hookedIsolates, v8Log, entryLog, lastNew>>
    /\ UNCHANGED oneGroupVars

\* line 56
SGC_Unlock(t) ==
    /\ ~crashed
    /\ pc[t] = "gc_unlock"
    /\ s_mutex' = NoThread
    /\ loc' = [loc EXCEPT ![t] = NoLocal]
    /\ pc' = [pc EXCEPT ![t] = "idle"]
    /\ UNCHANGED <<crashed, s_init_count, s_isolate_map, groups, liveIsolates,
                   hookedIsolates, v8Log, entryLog, lastNew>>
    /\ UNCHANGED oneGroupVars

\* ---- the process: groups are constructed and disposed of, GC events
\* arrive, on any of the worker threads
Construct(t) ==
    \/ \E g \in Groups, opens \in BOOLEAN, size \in FileSizes,
          read \in 0..MaxFile :
            /\ read <= size \/ (read = 0 /\ size < 0)
            /\ opens \/ (size = 0 /\ read = 0)
            /\ New(t, g, opens, size, read)
    \/ init_v8(t)
    \/ Ctor_IsolateNew(t)
    \/ Ctor_Write(t)
    \/ \E g \in Groups : Ctor_Adopt(t, g, EmbedderIsolate)
    \/ Ctor_AdoptLock(t)
    \/ Ctor_AdoptWrite(t)
    \/ Ctor_AdoptUnlock(t)

DisposeGroup(t) ==
    \/ \E g \in Groups : G_Dispose(t, g)
    \/ G_DisposeLock(t)
    \/ G_DisposeErase(t)
    \/ G_DisposeUnlock(t)
    \/ G_DisposeIsolate(t)
    \/ dispose_v8(t)

StaticGCPrologueCallback(t) ==
    \/ \E i \in Isolates : SGC_Enter(t, i)
    \/ SGC_Lock(t)
    \/ SGC_Lookup(t)
    \/ SGC_Unlock(t)

NextRegistry ==
    \/ \E t \in Workers : Construct(t)
    \/ \E t \in Workers : DisposeGroup(t)
    \/ \E t \in Workers : StaticGCPrologueCallback(t)

SpecRegistry == InitRegistry /\ [][NextRegistry]_vars
\* ================================================================ claims
\* No wake is pending, the owning thread is between drain cycles and every
\* other thread is between calls or blocked in sync_: nothing more happens
\* unless a new call is made.
Quiescent ==
    /\ ~crashed
    /\ pc[Owner] = "idle"
    /\ asyncSent = 0
    /\ \A t \in Workers : pc[t] \in {"idle", "sy_wait"}

\* C1: task ids are given in the order of the push_back calls, so the
\* bodies run in enqueue order iff the ids run are 1, 2, ..., k; and every
\* body is run by the owning thread.
C1_FifoOrder ==
    /\ executed = SeqOf(Len(executed))
    /\ \A i \in 1..Len(executedBy) : executedBy[i] = Owner

\* two tasks have run, the sync_ calls of both worker threads among the
\* enqueuers
C1_Witness ==
    /\ Len(executed) >= 2
    /\ \A t \in Workers : signaled[t]

\* C2: a thread that has passed sync_'s wait (and so can return), or
\* has returned from sync_, finds the body of its task already run.
C2_SyncReturnsAfterBody ==
    /\ \A t \in Workers : pc[t] = "sy_unlock" => syncTask[t] \in Range(executed)
    /\ syncDone \subseteq Range(executed)

\* a sync_ call has returned while another thread was inside MarkZombie
C2_Witness ==
    /\ syncDone # {}
    /\ \E t \in Workers : pc[t] = "mz_wake"

\* C3: every task pushed is run: once nothing is pending or in progress,
\* the tasks 1..nextTask have all run.
C3_EveryTaskRuns == Quiescent => Range(executed) = 1..nextTask

\* C4: a zombie is released by the owning thread only.
C4_ReleasedOnOwner ==
    /\ \A v \in Values : released[v] \in {NoThread, Owner}
    /\ \A c \in Contexts : releasedC[c] \in {NoThread, Owner}

\* C5: no wake is lost: once nothing is pending or in progress, no zombie
\* is left in the lists.
C5_NoLostWake ==
    Quiescent => (m_value_zombies = <<>> /\ m_context_zombies = <<>>)

\* C6: a context zombie that FreeZombies found defunct gets no forced
\* exit; one it found not defunct gets exactly one, and has got it by the
\* time its reference is released.
C6_ForcedExit ==
    \A c \in Contexts :
        /\ drainSaw[c] = "unseen" => exitCount[c] = 0
        /\ drainSaw[c] = "defunct" => exitCount[c] = 0
        /\ drainSaw[c] = "live" => exitCount[c] = 1
        /\ releasedC[c] # NoThread => drainSaw[c] # "unseen"

\* a context that was not defunct has been released after its forced exit
C6_Witness ==
    \E c \in Contexts : releasedC[c] # NoThread /\ exitCount[c] = 1

\* C7: a Dispose call made after a Dispose call has returned changes
\* nothing (but the count of calls made), and at every step the isolate
\* has been disposed, the registry entry erased and the startup buffer
\* freed at most once.
C7_DisposeIdempotent ==
    [][/\ (disposeCalls' # disposeCalls /\ disposeDone >= 1) =>
              UNCHANGED <<dispatchVars, m_isDefunct, m_managedValues,
                          m_managedContexts, gcHooked, registered,
                          m_manage_isolate, hasStartup, s_init_count,
                          inDispose, gcVars, histVars, lifeHist>>
       /\ isolateDisposed' <= 1
       /\ registryErased' <= 1
       /\ startupFreed' <= 1]_vars

\* a second Dispose call has been made on a group that owned its isolate
\* and a startup buffer
C7_Witness ==
    /\ disposeCalls >= 2
    /\ disposeDone = 1
    /\ isolateDisposed = 1
    /\ registryErased = 1
    /\ startupFreed = 1

\* C8: after UnregisterGCCallback(cb, data) the list is the list before
\* the call without the entries whose callback and data both equal the
\* arguments, the others in their order.
C8_UnregisterRemovesAll ==
    lastGC.op = "unregister" =>
        m_gc_callbacks =
            SelectSeq(lastGC.before,
                      LAMBDA e : ~(e.cb = lastGC.cb /\ e.data = lastGC.data))

\* one call removed two entries of the pair and left entries of others
C8_Witness ==
    /\ lastGC.op = "unregister"
    /\ Len(lastGC.before) >= Len(m_gc_callbacks) + 2
    /\ m_gc_callbacks # <<>>

\* C9: with the queue lock free, no handle means an empty queue; a handle
\* means a drain cycle is pending or running; the handle is cleared only
\* by the drain cycle, holding the lock, having found the queue empty; and
\* a schedule_java_runnable or sync_ call leaves a handle behind when it
\* lets go of the lock.
C9_HandleLifecycle ==
    [][/\ (m_async_mutex' = NoThread /\ ~m_async_handle') => m_runnables' = <<>>
       /\ (m_async_mutex' = NoThread /\ m_async_handle') =>
              (asyncSent' > 0 \/ pc'[Owner] # "idle")
       /\ (m_async_handle /\ ~m_async_handle') =>
              /\ pc[Owner] = "cb_test"
              /\ m_async_mutex = Owner
              /\ m_runnables = <<>>
       /\ \A t \in Threads :
              (pc[t] \in {"sj_wake", "sy_wake"} /\ pc'[t] # pc[t]) =>
                  m_async_handle']_vars

\* the handle has been torn down after a drain cycle that ran a task
C9_Witness ==
    /\ executed # <<>>
    /\ ~m_async_handle
    /\ m_async_mutex = NoThread
    /\ pc[Owner] = "idle"

\* C10: the thread that releases a zombie, calls the forced exit or runs
\* a task body holds neither m_async_mutex nor m_zombie_mutex as it does.
C10_NoLockAcrossCalls ==
    [][/\ \A v \in Values :
              released'[v] # released[v] => ~HoldsLock(released'[v])
       /\ \A c \in Contexts :
              releasedC'[c] # releasedC[c] => ~HoldsLock(releasedC'[c])
       /\ \A c \in Contexts :
              exitCount'[c] # exitCount[c] =>
                  \A t \in Threads : pc[t] = "fz_ctx" => ~HoldsLock(t)
       /\ executed' # executed => ~HoldsLock(Owner)]_vars

\* C11: s_isolate_map is a map, so it holds at most one group per isolate;
\* every group whose constructor has returned and whose Dispose has not
\* begun is the group registered for its isolate; no entry names a group
\* whose Dispose has returned; an entry leaves the map only by the erase
\* of the Dispose of the group it names, and only once.
C11_RegistryInvariant ==
    /\ \A g \in Groups :
           (groups[g].state = "live" /\ ~groups[g].m_isDefunct) =>
               s_isolate_map[groups[g].m_isolate] = g
    /\ \A i \in Isolates :
           s_isolate_map[i] # NoGroup =>
               groups[s_isolate_map[i]].state # "disposed"
    /\ \A k \in 1..Len(entryLog) :
           entryLog[k].how = "erase" /\ entryLog[k].of = entryLog[k].by
    /\ \A k, l \in 1..Len(entryLog) :
           entryLog[k].of = entryLog[l].of => k = l

\* C12: a thread that takes a step reading or writing s_isolate_map holds
\* s_mutex as it does, and no two threads stand at an access of the map at
\* the same time.
C12_RegistryLocked ==
    [][/\ \A t \in Workers :
              (pc[t] \in RegistryAccessSites /\ pc'[t] # pc[t]) => s_mutex = t
       /\ \A t, u \in Workers :
              (pc'[t] \in RegistryAccessSites /\ pc'[u] \in RegistryAccessSites)
                  => t = u]_vars

\* C13: a call of New does not fail; it takes the default constructor
\* when the file did not open or fread returned less than the file's size,
\* and the snapshot constructor only when the whole file was read.
C13_NewNeverFails ==
    lastNew.out # "none" =>
        /\ lastNew.out # "throws"
        /\ (~lastNew.opens \/ lastNew.read < lastNew.size) =>
               lastNew.out = "default"
        /\ lastNew.out = "snapshot" =>
               (lastNew.opens /\ lastNew.read = lastNew.size)

\* The steps logged by the Dispose calls of depth d, in order
RECURSIVE StepsOf(_, _)
StepsOf(log, d) ==
    IF log = <<>> THEN <<>>
    ELSE IF Head(log).depth = d
         THEN <<Head(log).step>> \o StepsOf(Tail(log), d)
         ELSE StepsOf(Tail(log), d)

StepsAt(d) == StepsOf(disposeSteps, d)

IsPrefix(a, b) == Len(a) <= Len(b) /\ \A i \in 1..Len(a) : a[i] = b[i]

\* The order of the steps as the claim C14 gives it
DisposeOrder ==
    <<"hook", "values", "contexts", "defunct", "flush", "registry",
      IF m_manage_isolate THEN "isolate" ELSE "runtime", "startup">>

C15_NoReentry ==
    \A k \in 1..Len(disposeSteps) :
        disposeSteps[k].depth > 0 =>
            disposeSteps[k].step \notin {"values", "contexts", "defunct", "flush"}

\* C16: V8 is initialized by the first init_v8, so it is initialized once
\* a constructor has called init_v8; it is shut down only after it was
\* initialized, and at most once; nothing is initialized after a shutdown.
C16_RuntimeLifecycle ==
    /\ IsPrefix(v8Log, <<"init", "shutdown">>)
    /\ s_init_count > 0 => v8Log # <<>>

\* What the event thread t delivers has to invoke: one call per entry of
\* the list, in the list's order, with the event's type and flags and the
\* entry's data
ExpectedCalls(t) ==
    [i \in 1..Len(m_gc_callbacks) |->
        [cb |-> m_gc_callbacks[i].cb, type |-> gcArgs[t].type,
         flags |-> gcArgs[t].flags, data |-> m_gc_callbacks[i].data]]

\* C17: the step of an event that looks the group up invokes exactly the
\* expected calls if the group is registered and none if it is not, with
\* s_mutex held by the event's thread before and after; and callbacks are
\* invoked by no other step.
C17_GCFanOut ==
    [][/\ \A t \in Workers :
              (pc[t] = "gc_call" /\ pc'[t] = "gc_unlock") =>
                  /\ s_mutex = t
                  /\ s_mutex' = t
                  /\ gcCalls' = IF registered THEN ExpectedCalls(t) ELSE <<>>
       /\ gcCalls' # gcCalls =>
              \E t \in Workers :
                  s_mutex = t /\ pc[t] \in {"gc_call", "gc_unlock"}]_vars

\* an event has invoked two entries with different data, in order, and
\* still holds the lock, while the other thread is inside Dispose
C17_Witness ==
    /\ Len(gcCalls) >= 2
    /\ gcCalls[1].data # gcCalls[2].data
    /\ \E t \in Workers : pc[t] = "gc_unlock" /\ s_mutex = t
    /\ inDispose # {}

\* C18: at every step at most one drain cycle is pending (a wake sent and
\* not yet delivered) or running, and then the handle exists; and the step
\* that creates a handle finds m_async_handle null and is taken by a thread
\* in the wake part of schedule_java_runnable, sync_ or MarkZombie while no
\* other thread holds m_async_mutex.
C18_OneDrainCycle ==
    [][/\ asyncSent' + (IF pc'[Owner] # "idle" THEN 1 ELSE 0) <= 1
       /\ (asyncSent' > 0 \/ pc'[Owner] # "idle") => m_async_handle'
       /\ asyncSent' > asyncSent =>
              /\ ~m_async_handle
              /\ m_async_handle'
              /\ \E t \in Threads :
                     /\ pc[t] \in {"sj_wake", "sy_wake", "mz_wake"}
                     /\ pc'[t] # pc[t]
                     /\ m_async_mutex \in {NoThread, t}
                     /\ pc[t] \in {"sj_wake", "sy_wake"} => m_async_mutex = t]_vars

\* a second drain cycle is pending after the first one ran a task and tore
\* its handle down, and a thread that marked a zombie meanwhile made none
C18_Witness ==
    /\ executed # <<>>
    /\ pc[Owner] = "idle"
    /\ asyncSent = 1
    /\ markedV # {}
    /\ Len(m_runnables) >= 1

\* C19: when the owning thread calls cv.notify_one() for a sync_ task,
\* the thread that made the sync_ call is still inside that call.
C19_NotifyBeforeReturn ==
    [][(pc[Owner] = "cb_notify" /\ pc'[Owner] # "cb_notify") =>
           syncTask[r.waiter] = r.id]_vars

\* C20: the step of the drain loop that erases the head of the queue finds
\* the queue not empty and the task just run at its head, and no task is
\* run twice.
C20_EraseIsExecuted ==
    [][/\ (pc[Owner] = "cb_relock" /\ pc'[Owner] = "cb_test") =>
              /\ m_runnables # <<>>
              /\ Head(m_runnables).id = r.id
       /\ \A i, j \in 1..Len(executed') :
              executed'[i] = executed'[j] => i = j]_vars
====
